---------------------------- MODULE Spec2Model ----------------------------
(***************************************************************************)
(* A model of the three tools of ticktac-project/extra-tools:              *)
(*   - benchtools/run_benchmarks.py  (the benchmark runner),               *)
(*   - benchtools/make_table.py      (result merging, the expression       *)
(*                                    evaluator and the LaTeX renderer),   *)
(*   - dot2dot/dot2dot.py            (the graph attribute rewriter).       *)
(* The tools share no state; each has its own specification, which leaves  *)
(* the variables of the other tools at their idle values.                  *)
(***************************************************************************)
EXTENDS Integers, Sequences, FiniteSets, TLC

VARIABLES
    \* ---- run_benchmarks.py
    entry,                  \* how run_benchmark is entered (the call site)
    benchmark,              \* the benchmark description (the fields read by the loop)
    pc,                     \* position of the runner
    mi, ci, pi,             \* indexes of the model, configuration, program loops
    skip,                   \* skip[program_name]
    reset_skip_col,         \* column of the matrix that resets skip, or None
    last_reset_skip_value,
    results,                \* results["stats"][model_fullname][program_name]["status"]
    rows,                   \* model_fullname keys present in results["stats"]
    invoked,                \* cells for which run_program has been called (history)
    failures,               \* number of error/timeout outcomes so far (history)
    \* ---- make_table.py: main's merge of the result files
    m_pc,                   \* position of main
    m_n,                    \* len(args.file)
    m_i,                    \* number of result files read so far
    m_results,              \* results["stats"]
    m_left, m_right,        \* the operands of the last merge_results call (history)
    \* ---- make_table.py: one call of evaluate
    ev_pc,                  \* "ready" before the call, "done" after it
    ev_expr,                \* the expression
    ev_stats,               \* the stats dictionary of the cell
    ev_res,                 \* what the call returned or raised
    \* ---- make_table.py: rendering the rows of the table
    rd_pc,                  \* position of the renderer
    rd_flag,                \* ignore_unknown_values
    rd_table,               \* table_description["columns"]
    rd_row, rd_col, rd_sub, \* indexes of the row, column, sub-column loops
    rd_cell,                \* data["stats"][row][column] of the cell being rendered
    rd_s,                   \* the text of the current row, as a sequence of tokens
    rd_lines,               \* number of lines of the table body written so far
    \* ---- dot2dot.py: apply_changes
    dot_pc,                 \* position in apply_changes
    changes,                \* the list of Change(cond, update, attr_names)
    G,                      \* the graph: the attributes declared, the values per element
    elmt_i, change_i,       \* indexes of the loops over coll and over changes
    to_change,              \* the pairs (attr, val) computed for the element
    unknown_attributes,     \* the text of the names found missing on the element
    warnings,               \* the warnings written to stderr so far
    snapshot,               \* history: the graph when the pass over the element began
    \* ---- dot2dot.py: the rules of the graph object
    gr_pc,                  \* position in the handling of the graph rule
    graph_updates,          \* the "updates" section of the rule, as (key, value) items
    graph_changes,          \* the list of pairs (attr, value) to set on the graph
    gr_i,                   \* index of the loop of graph_apply_changes
    graph_attr              \* G.graph_attr

runVars == <<entry, benchmark, pc, mi, ci, pi, skip, reset_skip_col,
             last_reset_skip_value, results, rows, invoked, failures>>

mergeVars == <<m_pc, m_n, m_i, m_results, m_left, m_right>>

evalVars == <<ev_pc, ev_expr, ev_stats, ev_res>>

renderVars == <<rd_pc, rd_flag, rd_table, rd_row, rd_col, rd_sub, rd_cell, rd_s, rd_lines>>

dotVars == <<dot_pc, changes, G, elmt_i, change_i, to_change, unknown_attributes, warnings, snapshot>>

graphVars == <<gr_pc, graph_updates, graph_changes, gr_i, graph_attr>>

vars == <<runVars, mergeVars, evalVars, renderVars, dotVars, graphVars>>

notRunVars == <<mergeVars, evalVars, renderVars, dotVars, graphVars>>
notMergeVars == <<runVars, evalVars, renderVars, dotVars, graphVars>>
notEvalVars == <<runVars, mergeVars, renderVars, dotVars, graphVars>>
notRenderVars == <<runVars, mergeVars, evalVars, dotVars, graphVars>>
notDotVars == <<runVars, mergeVars, evalVars, renderVars, graphVars>>
notGraphVars == <<runVars, mergeVars, evalVars, renderVars, dotVars>>

(***************************************************************************)
(*                    benchtools/run_benchmarks.py                         *)
(***************************************************************************)

\* Largest number of error/timeout outcomes of programs explored in one run.
MaxFailures == 2

None == "<None>"
\* The int 0 that last_reset_skip_value starts with; matrix values are strings
\* (they are joined with " ".join), and a str never equals an int in Python.
PyInt0 == "<int 0>"

\* Keys of benchmark["programs"], and the selections of main (select()).
Programs == {"p1", "p2", "p3"}
selected_programs == <<"p1", "p2">>
selected_models == <<"m1", "m2">>

\* benchmark["models"][model_name]["matrix"]
Matrix(model_name) ==
    IF model_name = "m1" THEN << <<"a", "b">>, <<"x", "y">> >>
                         ELSE << <<"c", "d">> >>

RECURSIVE Flatten(_)
Flatten(ss) == IF ss = <<>> THEN <<>> ELSE Head(ss) \o Flatten(Tail(ss))

\* itertools.product(*matrix): the rightmost column advances fastest.
RECURSIVE Product(_)
Product(matrix) ==
    IF matrix = <<>> THEN << <<>> >>
    ELSE LET rest == Product(Tail(matrix))
             col == Head(matrix)
         IN Flatten([i \in 1..Len(col) |->
                        [j \in 1..Len(rest) |-> <<col[i]>> \o rest[j]]])

\* The configurations of each model, in the order the loop visits them.
AllConfigs == [m \in {"m1", "m2"} |-> Product(Matrix(m))]
Configs(model_name) == AllConfigs[model_name]

\* model_fullname = model_name + " " + " ".join(config); names hold no space
\* here, so the pair identifies the string.
model_fullname(model_name, config) == <<model_name, config>>

AllFullnames ==
    UNION {{model_fullname(selected_models[m], Configs(selected_models[m])[c]) :
                c \in 1..Len(Configs(selected_models[m]))} :
           m \in 1..Len(selected_models)}

Statuses == {"success", "error", "timeout", "skipped"}

\* The values "reset_skip" takes in a model description: absent, or an int.
ResetSkipChoices(model_name) ==
    IF model_name = "m1"
    THEN {[present |-> FALSE, v |-> 0], [present |-> TRUE, v |-> 0],
          [present |-> TRUE, v |-> 1]}
    ELSE {[present |-> FALSE, v |-> 0], [present |-> TRUE, v |-> 0],
          [present |-> TRUE, v |-> 1], [present |-> TRUE, v |-> -1]}

\* run_benchmark's fourth argument at each call site.  main passes sys.stderr,
\* an object, which Python takes as true in `if cmds_only` / `if not cmds_only`.
cmds_only_arg(e) ==
    CASE e = "run_benchmark"  -> "False"         \* the default of the parameter
      [] e = "print_commands" -> "True"          \* run_benchmark(..., True)
      [] e = "main"           -> "sys.stderr"    \* run_benchmark(..., sys.stderr)

Truthy(v) == v \notin {"False", None, "0", ""}

cmds_only == Truthy(cmds_only_arg(entry))

\* skip_on_timeout = True iff the key is present with the string "True".
skip_on_timeout_of(b) ==
    IF b.skip_on_timeout # "<absent>" /\ b.skip_on_timeout = "True" THEN TRUE ELSE FALSE

skip_on_timeout == skip_on_timeout_of(benchmark)

\* A fresh skip dictionary: {program_name: False for program_name in benchmark["programs"]}
NoSkip == [p \in Programs |-> FALSE]

\* The values of reset_skip_col: None, or a column number (col).
NoCol == [kind |-> "None", col |-> 0]
Col(n) == [kind |-> "col", col |-> n]

\* reset_skip_column(model): None, the column, or kind "exit" for sys.exit().
reset_skip_column(model_name) ==
    LET rs == benchmark.reset_skip[model_name] IN
    IF ~rs.present THEN NoCol
    ELSE IF (rs.v < 0) \/ (rs.v >= Len(Matrix(model_name)))
         THEN [kind |-> "exit", col |-> 0]
    ELSE Col(rs.v)

\* config[reset_skip_col] (Python indexes from 0).
ResetValue(config, col) == config[col + 1]

RunInit ==
    /\ entry \in {"run_benchmark", "print_commands", "main"}
    /\ benchmark \in [skip_on_timeout : {"<absent>", "True", "False"},
                      reset_skip : {f \in [{"m1", "m2"} -> UNION {ResetSkipChoices(m) : m \in {"m1", "m2"}}] :
                                       \A m \in {"m1", "m2"} : f[m] \in ResetSkipChoices(m)}]
    /\ pc = "model"
    /\ mi = 1 /\ ci = 1 /\ pi = 1
    /\ skip = NoSkip
    /\ reset_skip_col = NoCol
    /\ last_reset_skip_value = PyInt0
    /\ results = [k \in AllFullnames |-> [p \in Programs |-> "none"]]
    /\ rows = {}
    /\ invoked = {}
    /\ failures = 0

\* The runner's variables while another tool is the subject.
RunIdle ==
    /\ entry = "run_benchmark"
    /\ benchmark = [skip_on_timeout |-> "<absent>",
                    reset_skip |-> [m \in {"m1", "m2"} |-> [present |-> FALSE, v |-> 0]]]
    /\ pc = "idle"
    /\ mi = 1 /\ ci = 1 /\ pi = 1
    /\ skip = NoSkip
    /\ reset_skip_col = NoCol
    /\ last_reset_skip_value = PyInt0
    /\ results = [k \in AllFullnames |-> [p \in Programs |-> "none"]]
    /\ rows = {}
    /\ invoked = {}
    /\ failures = 0

CurModel == selected_models[mi]
CurConfig == Configs(CurModel)[ci]
CurProgram == selected_programs[pi]
CurFullname == model_fullname(CurModel, CurConfig)

\* Mutant: the skip dictionary is carried over from the previous model.
skip_at_model_Keep(sk) == sk

\* line 113: the skip dictionary at the head of the loop over models.
skip_at_model(sk) == NoSkip

\* lines 112-116: the head of the loop over models.
StartModel ==
    /\ pc = "model" /\ mi <= Len(selected_models)
    /\ skip' = skip_at_model(skip)
    /\ LET col == reset_skip_column(CurModel) IN
       IF col.kind = "exit"
       THEN /\ pc' = "exited"
            /\ UNCHANGED <<reset_skip_col, last_reset_skip_value, ci>>
       ELSE /\ reset_skip_col' = col
            /\ last_reset_skip_value' = PyInt0
            /\ ci' = 1
            /\ pc' = "config"
    /\ UNCHANGED <<entry, benchmark, mi, pi, results, rows, invoked, failures>>
    /\ UNCHANGED notRunVars

\* line 147: return results.
Return ==
    /\ pc = "model" /\ mi > Len(selected_models)
    /\ pc' = "done"
    /\ UNCHANGED <<entry, benchmark, mi, ci, pi, skip, reset_skip_col,
                   last_reset_skip_value, results, rows, invoked, failures>>
    /\ UNCHANGED notRunVars

\* Mutants of the reset test: resetting at every configuration, and never.
SkipAfterResetTest_Always(sk, col, config, last) == NoSkip
SkipAfterResetTest_Never(sk, col, config, last) == sk

\* lines 119-120: the skip dictionary after the reset test.
SkipAfterResetTest(sk, col, config, last) ==
    IF col # NoCol /\ ResetValue(config, col.col) # last THEN NoSkip ELSE sk

\* lines 117-127: the head of the loop over configurations, with build_model.
StartConfig ==
    /\ pc = "config" /\ ci <= Len(Configs(CurModel))
    /\ skip' = SkipAfterResetTest(skip, reset_skip_col, CurConfig, last_reset_skip_value)
    /\ last_reset_skip_value' =
          (IF reset_skip_col # NoCol THEN ResetValue(CurConfig, reset_skip_col.col)
                                    ELSE last_reset_skip_value)
    /\ rows' = (IF ~cmds_only THEN rows \cup {CurFullname} ELSE rows)
    /\ \E returncode \in {0, 1} :           \* build_model
          IF returncode # 0 THEN pc' = "exited" /\ pi' = pi
                            ELSE pc' = "program" /\ pi' = 1
    /\ UNCHANGED <<entry, benchmark, mi, ci, reset_skip_col, results, invoked, failures>>
    /\ UNCHANGED notRunVars

EndModel ==
    /\ pc = "config" /\ ci > Len(Configs(CurModel))
    /\ mi' = mi + 1
    /\ pc' = "model"
    /\ UNCHANGED <<entry, benchmark, ci, pi, skip, reset_skip_col,
                   last_reset_skip_value, results, rows, invoked, failures>>
    /\ UNCHANGED notRunVars

\* Line 137: whether the program is skipped instead of run.
IsSkipped(sot, sk, program_name) == sot /\ sk[program_name]

\* Line 145-146: the skip dictionary after a program's status is known.
SkipAfterStatus(sk, program_name, status) ==
    IF status = "timeout" THEN [sk EXCEPT ![program_name] = TRUE] ELSE sk

\* lines 129-146: one iteration of the loop over programs.  run_program ends
\* with success, error (non-zero exit) or timeout; the output of a successful
\* program either parses as 'KEY VALUE' lines or makes tchecker_stats_as_dict
\* raise IndexError, which nothing catches.
RunProgram ==
    /\ pc = "program" /\ pi <= Len(selected_programs)
    /\ IF cmds_only
       THEN /\ pi' = pi + 1
            /\ UNCHANGED <<pc, skip, results, invoked, failures>>
       ELSE IF IsSkipped(skip_on_timeout, skip, CurProgram)
       THEN /\ results' = [results EXCEPT ![CurFullname][CurProgram] = "skipped"]
            /\ pi' = pi + 1
            /\ UNCHANGED <<pc, skip, invoked, failures>>
       ELSE /\ invoked' = invoked \cup {<<CurFullname, CurProgram>>}
            /\ \E outcome \in {"success", "error", "timeout", "malformed"} :
                 IF outcome = "malformed"
                 THEN /\ pc' = "crashed"
                      /\ UNCHANGED <<pi, skip, results, failures>>
                 ELSE /\ outcome \in {"error", "timeout"} => failures < MaxFailures
                      /\ failures' = failures + (IF outcome = "success" THEN 0 ELSE 1)
                      /\ results' = [results EXCEPT ![CurFullname][CurProgram] = outcome]
                      /\ skip' = SkipAfterStatus(skip, CurProgram, outcome)
                      /\ pi' = pi + 1
                      /\ pc' = pc
    /\ UNCHANGED <<entry, benchmark, mi, ci, reset_skip_col, last_reset_skip_value, rows>>
    /\ UNCHANGED notRunVars

EndConfig ==
    /\ pc = "program" /\ pi > Len(selected_programs)
    /\ ci' = ci + 1
    /\ pc' = "config"
    /\ UNCHANGED <<entry, benchmark, mi, pi, skip, reset_skip_col,
                   last_reset_skip_value, results, rows, invoked, failures>>
    /\ UNCHANGED notRunVars

(***************************************************************************)
(*                 Properties of the benchmark runner                      *)
(***************************************************************************)

\* The status recorded for program p on the c-th configuration of model m.
StatusAt(m, c, p) == results[model_fullname(m, Configs(m)[c])][p]
WasInvoked(m, c, p) == <<model_fullname(m, Configs(m)[c]), p>> \in invoked
SelectedSet == {selected_programs[i] : i \in 1..Len(selected_programs)}
ModelSet == {selected_models[i] : i \in 1..Len(selected_models)}

\* The reset column the benchmark declares for model m (read from the input,
\* not from the runner's state), and the value configuration c has there.
DeclaresReset(m) == benchmark.reset_skip[m].present
DeclaredValue(m, c) == Configs(m)[c][benchmark.reset_skip[m].v + 1]
ValidReset(m) ==
    DeclaresReset(m) => benchmark.reset_skip[m].v \in 0..(Len(Matrix(m)) - 1)

\* From configuration c1 to configuration c2 the reset column keeps the value
\* it has at c1 (always so when no reset column is declared).
ValueStays(m, c1, c2) ==
    DeclaresReset(m) => \A c \in c1..c2 : DeclaredValue(m, c) = DeclaredValue(m, c1)

\* C1: with skip-on-timeout enabled, once a program has timed out on a
\* configuration of a model, every later configuration of that model that is
\* processed while the reset column keeps its value (or any later one, without
\* a reset column) records "skipped" for the program and does not invoke it.
C1_SkipAfterTimeout ==
    skip_on_timeout =>
      \A m \in ModelSet : ValidReset(m) =>
        \A c1 \in 1..Len(Configs(m)) : \A c2 \in (c1 + 1)..Len(Configs(m)) :
          \A p \in SelectedSet :
            (/\ StatusAt(m, c1, p) = "timeout"
             /\ ValueStays(m, c1, c2)
             /\ (StatusAt(m, c2, p) # "none" \/ WasInvoked(m, c2, p)))
            => (StatusAt(m, c2, p) = "skipped" /\ ~WasInvoked(m, c2, p))

C1_Witness ==
    /\ skip_on_timeout
    /\ DeclaresReset("m1") /\ ValidReset("m1")
    /\ \E c1 \in 1..Len(Configs("m1")) : \E c2 \in (c1 + 1)..Len(Configs("m1")) :
         /\ StatusAt("m1", c1, "p2") = "timeout"
         /\ ValueStays("m1", c1, c2)
         /\ StatusAt("m1", c2, "p2") = "skipped"

\* Configuration c of model m is one where the declared reset column's value
\* differs from the previous configuration's.
ResetPoint(m, c) ==
    /\ DeclaresReset(m) /\ ValidReset(m)
    /\ c \in 2..Len(Configs(m))
    /\ DeclaredValue(m, c) # DeclaredValue(m, c - 1)

\* C2: at a configuration whose reset-column value differs from the previous
\* one's, the skip state is cleared for all programs before any program is run,
\* and every program recorded there was invoked and is not "skipped".
C2_ResetClearsSkip ==
    \A m \in ModelSet : \A c \in 1..Len(Configs(m)) :
      ResetPoint(m, c) =>
        /\ (pc = "program" /\ CurModel = m /\ ci = c /\ pi = 1) => skip = NoSkip
        /\ \A p \in SelectedSet :
             StatusAt(m, c, p) # "none" =>
                (StatusAt(m, c, p) # "skipped" /\ WasInvoked(m, c, p))

C2_Witness ==
    /\ skip_on_timeout
    /\ \E c \in 2..Len(Configs("m1")) :
         /\ ResetPoint("m1", c)
         /\ \A p \in SelectedSet :
              /\ StatusAt("m1", c - 1, p) \in {"timeout", "skipped"}
              /\ StatusAt("m1", c, p) \in {"success", "error", "timeout"}
              /\ WasInvoked("m1", c, p)

\* C3: a benchmark run (the runner started to run programs, not to print the
\* commands) that reaches its end holds a result entry, with the status of the
\* process, for every (configuration, selected program) pair.
C3_EveryPairRecorded ==
    (entry # "print_commands" /\ pc = "done") =>
        \A k \in AllFullnames : \A p \in SelectedSet :
            k \in rows /\ results[k][p] \in Statuses

\* The positions of a model and of a program in the selections.
ModelIndex(m) == CHOOSE i \in 1..Len(selected_models) : selected_models[i] = m
ProgramIndex(p) == CHOOSE i \in 1..Len(selected_programs) : selected_programs[i] = p

\* The pair (c-th configuration of m, p) comes before the point the runner has
\* reached, in model order, then configuration order, then program order.
Processed(m, c, p) ==
    \/ pc = "done"
    \/ ModelIndex(m) < mi
    \/ /\ ModelIndex(m) = mi /\ pc \in {"config", "program"}
       /\ \/ c < ci
          \/ c = ci /\ pc = "program" /\ ProgramIndex(p) < pi

\* C16: in a run that executes the programs, at every point short of an
\* abnormal end, each pair of a configuration and a selected program that the
\* runner has passed holds exactly one status among success, error, timeout
\* and skipped, and was invoked unless skipped; every pair not yet passed has
\* no status and was never invoked, so that no pair is invoked twice and the
\* pairs are taken in configuration order, then program order.
C16_OncePerPairInOrder ==
    (entry # "print_commands" /\ pc \notin {"exited", "crashed"}) =>
        \A m \in ModelSet : \A c \in 1..Len(Configs(m)) :
            /\ \A p \in SelectedSet :
                 IF Processed(m, c, p)
                 THEN /\ StatusAt(m, c, p) \in Statuses
                      /\ WasInvoked(m, c, p) <=> StatusAt(m, c, p) # "skipped"
                 ELSE StatusAt(m, c, p) = "none" /\ ~WasInvoked(m, c, p)
            /\ \A p \in Programs \ SelectedSet :
                 StatusAt(m, c, p) = "none" /\ ~WasInvoked(m, c, p)

\* C17: when the first configuration of a model is reached no program is
\* marked to be skipped, no program is recorded as skipped on the first
\* configuration of a model, and a program recorded as skipped on a
\* configuration timed out on an earlier configuration of the same model.
C17_SkipScopedToModel ==
    /\ (pc = "config" /\ ci = 1) => skip = NoSkip
    /\ \A m \in ModelSet : \A p \in SelectedSet :
         /\ StatusAt(m, 1, p) # "skipped"
         /\ \A c \in 1..Len(Configs(m)) :
              StatusAt(m, c, p) = "skipped" =>
                 \E c1 \in 1..(c - 1) : StatusAt(m, c1, p) = "timeout"

\* p1 timed out on the last configuration of m1, and with skip-on-timeout
\* enabled it is run, not skipped, on the first configuration of m2.
C17_Witness ==
    /\ skip_on_timeout /\ ~cmds_only
    /\ StatusAt("m1", Len(Configs("m1")), "p1") = "timeout"
    /\ StatusAt("m2", 1, "p1") = "success"
    /\ WasInvoked("m2", 1, "p1")

\* C19: in a run that executes the programs, a pair is recorded as skipped
\* only if skip-on-timeout is enabled and the program timed out on an earlier
\* configuration of the same model since which the reset column has kept its
\* value; with skip-on-timeout disabled every pair the runner has passed was
\* invoked and none is skipped.
C19_SkippedOnlyAfterTimeout ==
    (entry # "print_commands" /\ pc \notin {"exited", "crashed"}) =>
        \A m \in ModelSet : \A c \in 1..Len(Configs(m)) : \A p \in SelectedSet :
            /\ StatusAt(m, c, p) = "skipped" =>
                 /\ skip_on_timeout
                 /\ \E c1 \in 1..(c - 1) :
                       StatusAt(m, c1, p) = "timeout" /\ ValueStays(m, c1, c)
            /\ (~skip_on_timeout /\ Processed(m, c, p)) =>
                 (WasInvoked(m, c, p) /\ StatusAt(m, c, p) \in Statuses \ {"skipped"})

RunNext == StartModel \/ Return \/ StartConfig \/ EndModel \/ RunProgram \/ EndConfig

(***************************************************************************)
(*          benchtools/make_table.py: merging result files                 *)
(***************************************************************************)

\* Largest number of result files on the command line.
MaxFiles == 3

\* Test cases, program names and statistics entries of the result files read.
\* A dictionary is a function on its keys.
TestCases == {"t1", "t2"}
ProgNames == {"A", "B"}
StatsEntries == {"u", "v"}

ProgDicts == UNION {[ps -> StatsEntries] : ps \in SUBSET ProgNames}
StatsDicts == UNION {[ts -> ProgDicts] : ts \in SUBSET TestCases}

\* The dictionary d with d[k] = v set.
DictSet(d, k, v) == [x \in DOMAIN d \cup {k} |-> IF x = k THEN v ELSE d[x]]

\* The keys of a dictionary in the order a for loop visits them.
RECURSIVE KeysInOrder(_)
KeysInOrder(ks) ==
    IF ks = {} THEN <<>>
    ELSE LET k == CHOOSE x \in ks : TRUE IN <<k>> \o KeysInOrder(ks \ {k})

Raised == [err |-> TRUE]
Returned(d) == [err |-> FALSE, val |-> d]

\* Mutants of merge_prog_results: overwriting instead of raising, and
\* dropping the programs of the right operand.
RECURSIVE merge_prog_loop_Overwrite(_, _, _)
merge_prog_loop_Overwrite(res, others, progs) ==
    IF progs = <<>> THEN Returned(res)
    ELSE LET prog == Head(progs) IN
         merge_prog_loop_Overwrite(DictSet(res, prog, others[prog]), others, Tail(progs))

merge_prog_loop_Drop(res, others, progs) ==
    IF \E i \in 1..Len(progs) : progs[i] \in DOMAIN res THEN Raised ELSE Returned(res)

\* merge_prog_results (lines 357-362): the loop over the programs of others.
RECURSIVE merge_prog_loop(_, _, _)
merge_prog_loop(res, others, progs) ==
    IF progs = <<>> THEN Returned(res)
    ELSE LET prog == Head(progs) IN
         IF prog \in DOMAIN res THEN Raised
         ELSE merge_prog_loop(DictSet(res, prog, others[prog]), others, Tail(progs))

merge_prog_results(res, others) ==
    merge_prog_loop(res, others, KeysInOrder(DOMAIN others))

\* merge_results (lines 365-381): the loop over the test cases of others.  The
\* exception of merge_prog_results is raised again with the test case's name.
RECURSIVE merge_loop(_, _, _)
merge_loop(results_stats, others_stats, testcases) ==
    IF testcases = <<>> THEN Returned(results_stats)
    ELSE LET testcase == Head(testcases) IN
         IF testcase \notin DOMAIN results_stats
         THEN merge_loop(DictSet(results_stats, testcase, others_stats[testcase]),
                         others_stats, Tail(testcases))
         ELSE LET r == merge_prog_results(results_stats[testcase], others_stats[testcase]) IN
              IF r.err THEN Raised
              ELSE merge_loop(DictSet(results_stats, testcase, r.val),
                              others_stats, Tail(testcases))

merge_results(results_stats, others_stats) ==
    merge_loop(results_stats, others_stats, KeysInOrder(DOMAIN others_stats))

EmptyDict == [x \in {} |-> "u"]

MergeInit ==
    /\ m_pc = "start"
    /\ m_n \in 1..MaxFiles
    /\ m_i = 0
    /\ m_results = EmptyDict
    /\ m_left = EmptyDict
    /\ m_right = EmptyDict

\* The merge variables while another tool is the subject.
MergeIdle ==
    /\ m_pc = "idle"
    /\ m_n = 1
    /\ m_i = 0
    /\ m_results = EmptyDict
    /\ m_left = EmptyDict
    /\ m_right = EmptyDict

\* main, lines 401-403: results = json.load(args.file[0]).
LoadFirst ==
    /\ m_pc = "start"
    /\ \E file \in StatsDicts : m_results' = file
    /\ m_i' = 1
    /\ m_pc' = "merging"
    /\ UNCHANGED <<m_n, m_left, m_right>>
    /\ UNCHANGED notMergeVars

\* main, lines 404-413: one iteration of the loop over the other files; an
\* exception of merge_results is caught and the program exits with status 1.
MergeFile ==
    /\ m_pc = "merging" /\ m_i < m_n
    /\ \E tmp_results \in StatsDicts :
         LET r == merge_results(m_results, tmp_results) IN
         /\ m_left' = m_results
         /\ m_right' = tmp_results
         /\ IF r.err THEN m_pc' = "exit1" /\ m_results' = m_results
                     ELSE m_pc' = "merging" /\ m_results' = r.val
    /\ m_i' = m_i + 1
    /\ UNCHANGED m_n
    /\ UNCHANGED notMergeVars

\* main, line 415: all files are merged, the table is created.
CreateTable ==
    /\ m_pc = "merging" /\ m_i = m_n
    /\ m_pc' = "table"
    /\ UNCHANGED <<m_n, m_i, m_results, m_left, m_right>>
    /\ UNCHANGED notMergeVars

MergeNext == LoadFirst \/ MergeFile \/ CreateTable

\* The two operands of the last merge share a test case and, for it, a program.
SharesProgram(l, r) ==
    \E t \in DOMAIN l \cap DOMAIN r : DOMAIN l[t] \cap DOMAIN r[t] # {}

\* A merge_results call has been made (its operands are m_left, m_right).
Merged == m_i >= 2

\* C4: whenever the operands of a merge_results call, at any position of the
\* left-to-right merge, share a test case and a program name of that test
\* case, the call fails and the table generator exits with a failure.
C4_DuplicateIsError ==
    (Merged /\ SharesProgram(m_left, m_right)) => m_pc = "exit1"

\* The failing merge is the second one of a run over three files: its left
\* operand is the accumulated result of the first merge.
C4_Witness ==
    /\ m_i = 3 /\ m_pc = "exit1"
    /\ SharesProgram(m_left, m_right)
    /\ \E t \in DOMAIN m_left \cap DOMAIN m_right :
         DOMAIN m_left[t] = ProgNames /\ DOMAIN m_right[t] # {}

\* C5: a successful merge is a pure union: the test cases of the result are
\* those of both operands; a test case of one operand only keeps its mapping;
\* a test case of both maps the union of the programs, each entry unmodified.
C5_PureUnion ==
    (Merged /\ m_pc # "exit1") =>
       /\ DOMAIN m_results = DOMAIN m_left \cup DOMAIN m_right
       /\ \A t \in DOMAIN m_left \ DOMAIN m_right : m_results[t] = m_left[t]
       /\ \A t \in DOMAIN m_right \ DOMAIN m_left : m_results[t] = m_right[t]
       /\ \A t \in DOMAIN m_left \cap DOMAIN m_right :
            /\ DOMAIN m_results[t] = DOMAIN m_left[t] \cup DOMAIN m_right[t]
            /\ \A q \in DOMAIN m_left[t] : m_results[t][q] = m_left[t][q]
            /\ \A q \in DOMAIN m_right[t] : m_results[t][q] = m_right[t][q]

C5_Witness ==
    /\ Merged /\ m_pc = "merging"
    /\ "t1" \in DOMAIN m_left \ DOMAIN m_right
    /\ "t2" \in DOMAIN m_left \cap DOMAIN m_right
    /\ DOMAIN m_left["t2"] = {"A"} /\ DOMAIN m_right["t2"] = {"B"}
    /\ m_left["t2"]["A"] # m_right["t2"]["B"]
    /\ m_results["t2"] = [q \in ProgNames |-> IF q = "A" THEN m_left["t2"]["A"]
                                                       ELSE m_right["t2"]["B"]]

(***************************************************************************)
(*        benchtools/make_table.py: the expression evaluator               *)
(*                                                                         *)
(* Numbers are exact rationals n/d (d > 0, in lowest terms); ty tells an   *)
(* int from a float.  Floating-point rounding is not modelled.             *)
(***************************************************************************)

\* Bounds of the inputs: magnitude of the numerators of statistics and of
\* literal divisors, and the largest "decimal" of a round expression.
MaxStat == 3
MaxLit == 3
MaxDecimal == 1

Abs(x) == IF x < 0 THEN -x ELSE x

RECURSIVE Gcd(_, _)
Gcd(a, b) == IF b = 0 THEN a ELSE Gcd(b, a % b)

\* ---- Python values: numbers, strings of statistics, None, and how a call ended.
PyNum(ty, n, d) ==
    LET sn == IF d < 0 THEN -n ELSE n
        sd == Abs(d)
        g == Gcd(Abs(sn), sd)
    IN [k |-> "num", ty |-> ty, n |-> sn \div g, d |-> sd \div g, e |-> ""]
PyInt(n) == PyNum("int", n, 1)
PyFloat(n, d) == PyNum("float", n, d)
\* A statistic as run_benchmarks.py writes it: the text of the number n/d,
\* written without a fractional part iff d = 1 ("3", "-2", "1.5", "0.5").
PyStr(n, d) == [k |-> "str", ty |-> "str", n |-> n, d |-> d, e |-> ""]
PyNone == [k |-> "None", ty |-> "", n |-> 0, d |-> 1, e |-> ""]
\* An exception (or SystemExit, for sys.exit()) leaving the call.
Raise(e) == [k |-> "raise", ty |-> "", n |-> 0, d |-> 1, e |-> e]

IsNum(v) == v.k = "num"
IsRaise(v) == v.k = "raise"
IsZero(v) == IsNum(v) /\ v.n = 0

\* math.floor of the rational n/d (d > 0), and int() of it (towards zero).
Floor(n, d) == n \div d
Trunc(n, d) == IF n >= 0 THEN n \div d ELSE -((-n) \div d)

\* ---- JSON of the table description.
\* A number literal n/d (an integer literal iff d = 1).
JNum(n, d) == [t |-> "num", n |-> n, d |-> d, name |-> "", type |-> "", items |-> <<>>]
\* The dictionary {"name": name, "type": type} (type "" : no "type" key).
JVal(name, type) == [t |-> "val", n |-> 0, d |-> 1, name |-> name, type |-> type, items |-> <<>>]
\* A dictionary, as the sequence of its (key, value) items in file order.
JObj(items) == [t |-> "obj", n |-> 0, d |-> 1, name |-> "", type |-> "", items |-> items]
Item(key, val) == [key |-> key, val |-> val]

HasKey(obj, key) == \E i \in 1..Len(obj.items) : obj.items[i].key = key
Get(obj, key) == obj.items[CHOOSE i \in 1..Len(obj.items) : obj.items[i].key = key].val

\* int(x) and float(x) of a statistic (a str) or of a number.
py_int(v) ==
    IF v.k = "str" THEN (IF v.d = 1 THEN PyInt(v.n) ELSE Raise("ValueError"))
    ELSE IF v.k = "num" THEN PyInt(Trunc(v.n, v.d))
    ELSE Raise("TypeError")
py_float(v) ==
    IF v.k \in {"str", "num"} THEN PyFloat(v.n, v.d) ELSE Raise("TypeError")

\* evaluate_value (lines 71-84).
evaluate_value(stats, expr) ==
    IF expr.name \notin DOMAIN stats THEN Raise("UnknownValueException")
    ELSE LET value == stats[expr.name] IN
         IF expr.type = "" THEN value
         ELSE IF expr.type = "int" THEN py_int(value)
         ELSE IF expr.type = "float" THEN py_float(value)
         ELSE Raise("SystemExit")

\* value / divisor of Python (true division).
py_div(value, divisor) ==
    IF ~IsNum(value) \/ ~IsNum(divisor) THEN Raise("TypeError")
    ELSE IF divisor.n = 0 THEN Raise("ZeroDivisionError")
    ELSE PyFloat(value.n * divisor.d, value.d * divisor.n)

\* Mutant: the literal divisor taken as written, not through int().
divisor_of_literal_Exact(by) == PyFloat(by.n, by.d)

\* Line 98: divisor = int(expr["by"]) for a number literal.
divisor_of_literal(by) == PyInt(Trunc(by.n, by.d))

\* Lines 103-112: the checks of evaluate_divide and the division.
divide_result(value, divisor) ==
    IF divisor = PyNone THEN Raise("SystemExit")
    ELSE IF IsZero(divisor) THEN Raise("SystemExit")
    ELSE IF value = PyNone THEN Raise("SystemExit")
    ELSE py_div(value, divisor)

\* Mutants of the percentage: no floor, and no value for 0/0.
percent_result_NoFloor(num, den) ==
    IF den = PyNone \/ num = PyNone THEN Raise("SystemExit")
    ELSE IF ~IsNum(num) \/ ~IsNum(den) THEN Raise("TypeError")
    ELSE IF den.n = 0 THEN (IF num.n = 0 THEN PyFloat(100, 1) ELSE Raise("AssertionError"))
    ELSE PyFloat(100 * num.n * den.d, num.d * den.n)

\* Lines 151-160: the checks of evaluate_percent and the percentage,
\* math.floor((100.0 * num / den) * 100) / 100.
percent_result(num, den) ==
    IF den = PyNone THEN Raise("SystemExit")
    ELSE IF num = PyNone THEN Raise("SystemExit")
    ELSE IF IsZero(den)
         THEN (IF IsZero(num) THEN PyFloat(100, 1) ELSE Raise("AssertionError"))
    ELSE IF ~IsNum(num) \/ ~IsNum(den) THEN Raise("TypeError")
    ELSE LET q == PyFloat(100 * num.n * den.d * 100, num.d * den.n)
         IN PyFloat(Floor(q.n, q.d), 100)

RECURSIVE Pow10(_)
Pow10(k) == IF k = 0 THEN 1 ELSE 10 * Pow10(k - 1)

\* Mutant: round to the nearest multiple of 10^-decimal (halves upwards).
round_result_Nearest(value, decimal) ==
    IF decimal = PyNone \/ value = PyNone THEN Raise("SystemExit")
    ELSE IF ~IsNum(value) \/ ~IsNum(decimal) THEN Raise("TypeError")
    ELSE IF decimal.n < 0
         THEN LET f == Pow10(-decimal.n)
              IN PyFloat(Floor(2 * value.n + value.d * f, 2 * value.d * f) * f, 1)
    ELSE LET f == Pow10(decimal.n)
         IN PyFloat(Floor(2 * value.n * f + value.d, 2 * value.d), f)

\* Lines 128-135: the checks of evaluate_round and the truncation,
\* math.floor(value * factor) / factor with factor = pow(10, decimal).
round_result(value, decimal) ==
    IF decimal = PyNone THEN Raise("SystemExit")
    ELSE IF value = PyNone THEN Raise("SystemExit")
    ELSE IF ~IsNum(value) \/ ~IsNum(decimal) THEN Raise("TypeError")
    ELSE IF decimal.n < 0
         THEN LET f == Pow10(-decimal.n)      \* factor = 10 ** -k, a float
                  q == PyFloat(value.n, value.d * f)
              IN PyFloat(Floor(q.n, q.d) * f, 1)
    ELSE LET f == Pow10(decimal.n)
             q == PyFloat(value.n * f, value.d)
         IN PyFloat(Floor(q.n, q.d), f)

\* A text made of a number: the digits of an int (form "int"), the repr of a
\* float, or "%.1f %s": n tenths and the suffix.  Form ".1f?" stands for a
\* quotient that lies, in decimal, exactly between two tenths without being a
\* binary fraction: the double nearest to it is above or below it, and the
\* text shows n or n + 1 tenths accordingly.
PyText(form, n, d, suffix) == [k |-> "text", ty |-> suffix, n |-> n, d |-> d, e |-> form]

\* "%.1f" of a number of p/q tenths (p >= 0): the nearest number of tenths,
\* the even one for a tie that is a binary fraction (x.25, x.75).
format_1f(p, q, suffix) ==
    LET lo == p \div q
        r == p % q
        d == q
    IN IF 2 * r < d THEN PyText(".1f", lo, 10, suffix)
       ELSE IF 2 * r > d THEN PyText(".1f", lo + 1, 10, suffix)
       ELSE IF (2 * lo + 1) % 5 = 0
            THEN PyText(".1f", IF lo % 2 = 0 THEN lo ELSE lo + 1, 10, suffix)
       ELSE PyText(".1f?", lo, 10, suffix)

\* Mutant: the quotient is cut after the first decimal.
readable_result_Truncate(value) ==
    IF ~IsNum(value) THEN Raise("TypeError")
    ELSE IF value.n < 1000 * value.d
         THEN PyText(value.ty, value.n, value.d, "")
    ELSE IF value.n >= 1000000000 * value.d
         THEN PyText(".1f", value.n \div (100000000 * value.d), 10, "G")
    ELSE IF value.n >= 1000000 * value.d
         THEN PyText(".1f", value.n \div (100000 * value.d), 10, "M")
    ELSE PyText(".1f", value.n \div (100 * value.d), 10, "k")

\* evaluate_readable, lines 173-186: the comparisons, the division and the
\* formatting (value is a float after `value /= ...`).
readable_result(value) ==
    IF ~IsNum(value) THEN Raise("TypeError")          \* a str compared with 1000
    ELSE IF value.n < 1000 * value.d
         THEN PyText(value.ty, value.n, value.d, "")  \* f"{value}"
    ELSE IF value.n >= 1000000000 * value.d
         THEN format_1f(value.n, 100000000 * value.d, "G")
    ELSE IF value.n >= 1000000 * value.d
         THEN format_1f(value.n, 100000 * value.d, "M")
    ELSE format_1f(value.n, 100 * value.d, "k")

\* evaluate_readable (lines 167-186).
evaluate_readable(stats, expr) ==
    IF Len(expr.items) # 1 THEN Raise("AssertionError")
    ELSE IF ~HasKey(expr, "value") THEN Raise("SystemExit")
    ELSE LET value == evaluate_value(stats, Get(expr, "value"))
         IN IF IsRaise(value) THEN value ELSE readable_result(value)

\* evaluate and the evaluators of the operators (lines 91-160, 193-206).  A
\* loop `for e in expr` is the recursion over the items; the first exception
\* ends the call.
RECURSIVE evaluate(_, _), divide_loop(_, _, _, _), round_loop(_, _, _, _),
          percent_loop(_, _, _, _)

\* evaluate_divide, lines 95-102, then divide_result.
divide_loop(stats, items, value, divisor) ==
    IF items = <<>> THEN divide_result(value, divisor)
    ELSE LET it == Head(items) IN
         IF it.key = "by"
         THEN LET dv == IF it.val.t = "num" THEN divisor_of_literal(it.val)
                                            ELSE evaluate(stats, it.val)
              IN IF IsRaise(dv) THEN dv
                 ELSE divide_loop(stats, Tail(items), value, dv)
         ELSE LET v == evaluate(stats, JObj(<<it>>))
              IN IF IsRaise(v) THEN v
                 ELSE divide_loop(stats, Tail(items), v, divisor)

evaluate_divide(stats, expr) ==
    IF Len(expr.items) # 2 THEN Raise("AssertionError")
    ELSE divide_loop(stats, expr.items, PyNone, PyNone)

\* evaluate_round, lines 123-127, then round_result.
round_loop(stats, items, value, decimal) ==
    IF items = <<>> THEN round_result(value, decimal)
    ELSE LET it == Head(items) IN
         IF it.key = "decimal"
         THEN LET dc == IF it.val.t = "num" THEN PyInt(Trunc(it.val.n, it.val.d))
                                            ELSE Raise("TypeError")
              IN IF IsRaise(dc) THEN dc
                 ELSE round_loop(stats, Tail(items), value, dc)
         ELSE LET v == evaluate(stats, JObj(<<it>>))
              IN IF IsRaise(v) THEN v
                 ELSE round_loop(stats, Tail(items), v, decimal)

evaluate_round(stats, expr) ==
    IF Len(expr.items) # 2 THEN Raise("AssertionError")
    ELSE round_loop(stats, expr.items, PyNone, PyNone)

\* evaluate_percent, lines 146-150, then percent_result.
percent_loop(stats, items, num, den) ==
    IF items = <<>> THEN percent_result(num, den)
    ELSE LET it == Head(items)
             v == IF it.val.t = "obj" THEN evaluate(stats, it.val) ELSE Raise("TypeError")
         IN IF IsRaise(v) THEN v
            ELSE IF it.key = "num" THEN percent_loop(stats, Tail(items), v, den)
            ELSE percent_loop(stats, Tail(items), num, v)

evaluate_percent(stats, expr) ==
    IF Len(expr.items) # 2 THEN Raise("AssertionError")
    ELSE percent_loop(stats, expr.items, PyNone, PyNone)

\* evaluate, lines 193-206.
evaluate(stats, expr) ==
    IF HasKey(expr, "value") THEN evaluate_value(stats, Get(expr, "value"))
    ELSE IF HasKey(expr, "divide") THEN evaluate_divide(stats, Get(expr, "divide"))
    ELSE IF HasKey(expr, "round") THEN evaluate_round(stats, Get(expr, "round"))
    ELSE IF HasKey(expr, "percent") THEN evaluate_percent(stats, Get(expr, "percent"))
    ELSE IF HasKey(expr, "readable") THEN evaluate_readable(stats, Get(expr, "readable"))
    ELSE Raise("SystemExit")

\* ---- The expressions and statistics explored.
Value(name, type) == JObj(<<Item("value", JVal(name, type))>>)
DivideBy(name, type, by) ==
    JObj(<<Item("divide", JObj(<<Item("value", JVal(name, type)), Item("by", by)>>))>>)
ByDivide(by, name, type) ==
    JObj(<<Item("divide", JObj(<<Item("by", by), Item("value", JVal(name, type))>>))>>)
Percent(num, den) == JObj(<<Item("percent", JObj(<<Item("num", num), Item("den", den)>>))>>)
PercentDenFirst(num, den) ==
    JObj(<<Item("percent", JObj(<<Item("den", den), Item("num", num)>>))>>)
Round(e, k) == JObj(<<Item("round", JObj(e.items \o <<Item("decimal", JNum(k, 1))>>))>>)

\* {"divide": {"value": x, "percent": {"num": x, "den": x}}}: no "by" key.
DivideNoBy ==
    JObj(<<Item("divide",
                JObj(<<Item("value", JVal("x", "int")),
                       Item("percent", JObj(<<Item("num", Value("x", "int")),
                                              Item("den", Value("x", "int"))>>))>>))>>)

Types == {"int", "float"}
Literals == {JNum(n, d) : n \in (-MaxLit)..MaxLit, d \in {1, 2}}

DivideExprs ==
    {DivideBy("x", ty, by) : ty \in Types, by \in Literals}
    \cup {DivideBy("x", ty, Value("y", t2)) : ty \in Types, t2 \in Types \cup {""}}
    \cup {ByDivide(by, "x", "int") : by \in Literals}
    \cup {DivideBy("x", "int", DivideBy("y", "float", JNum(2, 1)))}
    \* a divide expression without "by", and one with a single operand
    \cup {DivideNoBy, JObj(<<Item("divide", JObj(<<Item("by", JNum(2, 1))>>))>>)}

PercentExprs ==
    {Percent(Value("x", t1), Value("y", t2)) : t1 \in Types, t2 \in Types}
    \cup {PercentDenFirst(Value("x", "int"), Value("y", "int")),
          Percent(DivideBy("x", "int", JNum(2, 1)), Value("y", "int")),
          Percent(Value("x", "int"), Round(Value("y", "float"), 0))}

RoundExprs ==
    {Round(Value("x", ty), k) : ty \in Types, k \in 0..MaxDecimal}
    \cup {Round(DivideBy("x", "int", Value("y", "int")), k) : k \in 0..MaxDecimal}
    \cup {Round(Value("x", "int"), -1)}

EvalExprs ==
    {Value("x", ty) : ty \in Types \cup {""}} \cup DivideExprs \cup PercentExprs \cup RoundExprs

\* Readable expressions, of the count "c": well formed, without "value", and
\* nested in a divide.
Readable(name, type) == JObj(<<Item("readable", JObj(<<Item("value", JVal(name, type))>>))>>)
ReadableExprs ==
    {Readable("c", ty) : ty \in Types \cup {""}}
    \cup {JObj(<<Item("readable", JObj(<<Item("by", JNum(2, 1))>>))>>),
          JObj(<<Item("divide", JObj(<<Item("readable", JObj(<<Item("value", JVal("c", "int"))>>)),
                                       Item("by", JNum(2, 1))>>))>>)}

\* The statistics of a cell: "x" and "y", each absent or the text of a number.
StatTexts == {PyStr(n, d) : n \in (-MaxStat)..MaxStat, d \in {1, 2}}
StatsOver(names) == UNION {[ks -> StatTexts] : ks \in SUBSET names}
\* The counts given to readable expressions: around each threshold, with
\* quotients that fall between two tenths, negative, and with a fraction.
CountTexts ==
    {PyStr(n, 1) : n \in {-5, 0, 7, 999, 1000, 1050, 1250, 1260, 1500, 999949, 999950, 999999,
                          1000000, 2500000, 999999999, 1000000000, 2000000000}}
    \cup {PyStr(1999, 2), PyStr(3001, 2)}

EvalInit ==
    /\ ev_pc = "ready"
    /\ \/ ev_expr \in EvalExprs /\ ev_stats \in StatsOver({"x", "y"})
       \/ ev_expr \in ReadableExprs /\ ev_stats \in UNION {[ks -> CountTexts] : ks \in SUBSET {"c"}}
    /\ ev_res = PyNone

\* The evaluator's variables while another tool is the subject.
EvalIdle ==
    /\ ev_pc = "idle"
    /\ ev_expr = JObj(<<>>)
    /\ ev_stats = [x \in {} |-> PyNone]
    /\ ev_res = PyNone

\* One call evaluate(stats, expr).
Evaluate ==
    /\ ev_pc = "ready"
    /\ LET res == evaluate(ev_stats, ev_expr)
       IN IF res.e = ".1f?"
          THEN \E n \in {res.n, res.n + 1} : ev_res' = PyText(".1f", n, res.d, res.ty)
          ELSE ev_res' = res
    /\ ev_pc' = "done"
    /\ UNCHANGED <<ev_expr, ev_stats>>
    /\ UNCHANGED notEvalVars

EvalNext == Evaluate

\* ---- Properties of the evaluator.
TopExpr == ev_expr

\* The expression evaluated is a divide of a value expression by a divisor.
IsDivideOfValue ==
    /\ HasKey(TopExpr, "divide")
    /\ LET dv == Get(TopExpr, "divide") IN
       Len(dv.items) = 2 /\ HasKey(dv, "value") /\ HasKey(dv, "by")
DivideBody == Get(TopExpr, "divide")
DivideOperand == evaluate(ev_stats, JObj(<<Item("value", Get(DivideBody, "value"))>>))
\* The divisor the expression gives: the literal as written, or the value of
\* the nested expression.
DivideDivisor ==
    LET by == Get(DivideBody, "by") IN
    IF by.t = "num" THEN PyFloat(by.n, by.d) ELSE evaluate(ev_stats, by)

\* v is the number a / b.
IsQuotient(v, a, b) ==
    IsNum(v) /\ IsNum(a) /\ IsNum(b) /\ b.n # 0
    /\ v.n * (a.d * b.n) = v.d * (a.n * b.d)

\* C6: for every divide expression whose divisor (a literal or a nested
\* expression) is a nonzero number, evaluate_divide returns the value of the
\* sub-expression divided by that divisor.
C6_DivideExact ==
    (/\ ev_pc = "done" /\ IsDivideOfValue
     /\ IsNum(DivideOperand) /\ IsNum(DivideDivisor) /\ DivideDivisor.n # 0)
    => IsQuotient(ev_res, DivideOperand, DivideDivisor)

\* What holds instead: the quotient is exact when the divisor is an integer
\* literal or a nested expression.
DivideExactForIntegerLiterals ==
    (/\ ev_pc = "done" /\ IsDivideOfValue
     /\ IsNum(DivideOperand) /\ IsNum(DivideDivisor) /\ DivideDivisor.n # 0
     /\ (Get(DivideBody, "by").t = "num" => Get(DivideBody, "by").d = 1))
    => IsQuotient(ev_res, DivideOperand, DivideDivisor)

\* The expression evaluated is a percent with a "num" and a "den" operand.
IsPercent ==
    /\ HasKey(TopExpr, "percent")
    /\ LET pb == Get(TopExpr, "percent") IN
       Len(pb.items) = 2 /\ HasKey(pb, "num") /\ HasKey(pb, "den")
PercentNum == evaluate(ev_stats, Get(Get(TopExpr, "percent"), "num"))
PercentDen == evaluate(ev_stats, Get(Get(TopExpr, "percent"), "den"))

\* v = k / 100 for the integer k with k <= 100 * num / den * 100 < k + 1.
IsFlooredPercent(v, num, den) ==
    /\ IsNum(v) /\ (v.n * 100) % v.d = 0
    /\ LET k == (v.n * 100) \div v.d
           sg == IF den.n < 0 THEN -1 ELSE 1
           N == sg * 10000 * num.n * den.d
           D == sg * num.d * den.n
       IN k * D <= N /\ N < (k + 1) * D

\* C7: evaluate_percent returns 100.0 for 0/0, floor(100*num/den*100)/100 for
\* every nonzero denominator, and raises (returns nothing) for a zero
\* denominator with a nonzero numerator.
C7_Percent ==
    (ev_pc = "done" /\ IsPercent /\ IsNum(PercentNum) /\ IsNum(PercentDen)) =>
       /\ (PercentDen.n = 0 /\ PercentNum.n = 0) => ev_res = PyFloat(100, 1)
       /\ (PercentDen.n # 0) => IsFlooredPercent(ev_res, PercentNum, PercentDen)
       /\ (PercentDen.n = 0 /\ PercentNum.n # 0) => IsRaise(ev_res)

\* A percentage that the floor changes, of a negative quotient.
C7_Witness ==
    /\ ev_pc = "done" /\ IsPercent /\ IsNum(PercentNum) /\ IsNum(PercentDen)
    /\ PercentDen.n # 0
    /\ PercentNum.n * PercentDen.n < 0
    /\ (10000 * PercentNum.n * PercentDen.d) % (PercentNum.d * PercentDen.n) # 0
    /\ IsNum(ev_res)

\* The call evaluated readable of the count "c", taken as an int v.
IsReadableOfCount ==
    /\ ev_pc = "done" /\ TopExpr = Readable("c", "int")
    /\ "c" \in DOMAIN ev_stats /\ ev_stats["c"].d = 1
CountValue == ev_stats["c"].n

\* ev_res is the text of v / 10^k with one decimal and the suffix: t tenths
\* with t the integer nearest to v / 10^(k-1), given as `unit`.
IsOneDecimal(v, unit, suffix) ==
    /\ ev_res.k = "text" /\ ev_res.e = ".1f" /\ ev_res.d = 10 /\ ev_res.ty = suffix
    /\ 2 * (ev_res.n * unit - v) <= unit
    /\ 2 * (v - ev_res.n * unit) <= unit

\* C14: readable of an integer count v is the bare integer when v < 1000,
\* and otherwise v / 10^3, v / 10^6 or v / 10^9 with one decimal and the
\* suffix k (1000 <= v < 10^6), M (10^6 <= v < 10^9) or G (v >= 10^9).
C14_Readable ==
    IsReadableOfCount =>
        LET v == CountValue IN
        IF v < 1000 THEN ev_res = PyText("int", v, 1, "")
        ELSE IF v < 1000000 THEN IsOneDecimal(v, 100, "k")
        ELSE IF v < 1000000000 THEN IsOneDecimal(v, 100000, "M")
        ELSE IsOneDecimal(v, 100000000, "G")

\* 2500000 gave "2.5 M".
C14_Witness ==
    /\ IsReadableOfCount /\ CountValue = 2500000
    /\ ev_res = PyText(".1f", 25, 10, "M")

\* The call evaluated round of a sub-expression that has the number
\* RoundOperand as value, to RoundDecimal decimal places.
IsRound ==
    /\ ev_pc = "done" /\ HasKey(TopExpr, "round")
    /\ Len(Get(TopExpr, "round").items) = 2 /\ HasKey(Get(TopExpr, "round"), "decimal")
    /\ IsNum(evaluate(ev_stats, JObj(<<Get(TopExpr, "round").items[1]>>)))
RoundOperand == evaluate(ev_stats, JObj(<<Get(TopExpr, "round").items[1]>>))
RoundDecimal == Get(Get(TopExpr, "round"), "decimal").n

\* C15: round to d decimal places gives floor(v * 10^d) / 10^d: the result
\* is a multiple m of 10^-d with m * 10^-d <= v < (m + 1) * 10^-d, for
\* negative values too.
C15_RoundIsFloor ==
    IsRound =>
        LET v == RoundOperand
            d == RoundDecimal
        IN /\ IsNum(ev_res)
           /\ IF d >= 0
              THEN LET f == Pow10(d)
                       m == (ev_res.n * f) \div ev_res.d
                   IN /\ (ev_res.n * f) % ev_res.d = 0
                      /\ m * v.d <= v.n * f
                      /\ v.n * f < (m + 1) * v.d
              ELSE LET f == Pow10(-d)
                       m == ev_res.n \div (f * ev_res.d)
                   IN /\ ev_res.n % (f * ev_res.d) = 0
                      /\ m * f * v.d <= v.n
                      /\ v.n < (m + 1) * f * v.d

\* -2/3 to one decimal place is -0.7, and 1.5 to no decimal place is 1.
C15_Witness ==
    /\ IsRound
    /\ \/ RoundOperand = PyFloat(-2, 3) /\ RoundDecimal = 1 /\ ev_res = PyFloat(-7, 10)
       \/ RoundOperand = PyFloat(3, 2) /\ RoundDecimal = 0 /\ ev_res = PyFloat(1, 1)

(***************************************************************************)
(*        benchtools/make_table.py: rendering the rows of the table        *)
(***************************************************************************)

\* table_description["rows"] ("" is a horizontal line) and the column names.
TableRows == <<"r1", "", "r2">>
TableColumns == <<"A", "B">>

\* A sub-column: its name, its expression and the value of the "enabled" key
\* that stands beside the expression in the same JSON object.
NoEnabled == "<absent>"
SubColumn(name, expr, enabled) == [name |-> name, expr |-> expr, enabled |-> enabled]

\* The expressions of the sub-columns explored: without fault, naming the
\* statistic "z" that no cell has (at depth 0, 1 and 2), dividing by a literal
\* 0, lacking "by", and a percent whose denominator may be 0.
UnknownDepth0 == Value("z", "int")
UnknownDepth1 == DivideBy("z", "int", JNum(2, 1))
UnknownDepth2 == Percent(Value("x", "int"), DivideBy("z", "int", JNum(2, 1)))
DivideByZero == DivideBy("x", "int", JNum(0, 1))
RenderExprs ==
    {Value("x", "int"), UnknownDepth0, UnknownDepth1, UnknownDepth2, DivideByZero,
     DivideNoBy, Percent(Value("x", "int"), Value("y", "int"))}

\* The cells of the result file: no entry for the column, an entry of a run
\* that did not succeed, or the statistics of a successful run.
CellStats ==
    UNION {[ks -> {PyStr(0, 1), PyStr(2, 1)}] : ks \in SUBSET {"x", "y"}}
NoStats == [k \in {} |-> PyNone]
Cell(present, status, stats) == [present |-> present, status |-> status, stats |-> stats]
CellChoices ==
    {Cell(FALSE, "", NoStats)}
    \cup {Cell(TRUE, st, NoStats) : st \in {"error", "timeout", "skipped"}}
    \cup {Cell(TRUE, "success", st) : st \in CellStats}

\* Tokens of the row text.
RowName(row) == [tk |-> "row", text |-> row, span |-> 0, val |-> PyNone]
ValueTok(v) == [tk |-> "value", text |-> "", span |-> 0, val |-> v]       \* " & " + str(value)
Placeholder == [tk |-> "value", text |-> "\\#\\#\\#", span |-> 0, val |-> PyNone]
MultiColumn(n, text) == [tk |-> "multicolumn", text |-> text, span |-> n, val |-> PyNone]

\* Mutant: the value of the "enabled" key is not looked at.
sub_column_is_enabled_Always(sc) == TRUE

\* sub_column_is_enabled (lines 21-25).
sub_column_is_enabled(sc) == ~(sc.enabled # NoEnabled) \/ sc.enabled = "True"

\* enabled_sub_columns (lines 32-34).
enabled_sub_columns(table, column) ==
    SelectSeq(table[column], sub_column_is_enabled)

RenderInit ==
    /\ rd_pc = "row"
    /\ rd_flag \in BOOLEAN
    /\ \E e1 \in RenderExprs, e2 \in RenderExprs, en \in {NoEnabled, "True", "False"},
          e3 \in {Value("x", "int"), UnknownDepth1} :
          rd_table = [c \in {"A", "B"} |->
                        IF c = "A" THEN <<SubColumn("s1", e1, NoEnabled), SubColumn("s2", e2, en)>>
                                   ELSE <<SubColumn("s1", e3, NoEnabled)>>]
    /\ rd_row = 1 /\ rd_col = 1 /\ rd_sub = 1
    /\ rd_cell = Cell(FALSE, "", NoStats)
    /\ rd_s = <<>>
    /\ rd_lines = 0

\* The renderer's variables while another tool is the subject.
RenderIdle ==
    /\ rd_pc = "idle"
    /\ rd_flag = FALSE
    /\ rd_table = [c \in {"A", "B"} |-> <<>>]
    /\ rd_row = 1 /\ rd_col = 1 /\ rd_sub = 1
    /\ rd_cell = Cell(FALSE, "", NoStats)
    /\ rd_s = <<>>
    /\ rd_lines = 0

CurColumn == TableColumns[rd_col]
CurSubColumns == enabled_sub_columns(rd_table, CurColumn)
CurSubExpr == CurSubColumns[rd_sub].expr

\* compute_LaTeX_rows (lines 271-275) and the head of compute_LaTeX_row
\* (lines 251-255): a line, a row missing from the results, or a row to fill.
RowStep ==
    /\ rd_pc = "row" /\ rd_row <= Len(TableRows)
    /\ IF TableRows[rd_row] = ""
       THEN /\ rd_lines' = rd_lines + 1
            /\ rd_row' = rd_row + 1
            /\ UNCHANGED <<rd_pc, rd_col, rd_s>>
       ELSE \E row_in_stats \in BOOLEAN :
              IF ~row_in_stats
              THEN /\ rd_lines' = rd_lines + 1
                   /\ rd_row' = rd_row + 1
                   /\ UNCHANGED <<rd_pc, rd_col, rd_s>>
              ELSE /\ rd_s' = <<RowName(TableRows[rd_row])>>
                   /\ rd_col' = 1
                   /\ rd_pc' = "cell"
                   /\ UNCHANGED <<rd_row, rd_lines>>
    /\ UNCHANGED <<rd_flag, rd_table, rd_sub, rd_cell>>
    /\ UNCHANGED notRenderVars

\* compute_LaTeX_row_column, lines 217-228: a cell without entry or of a run
\* that did not succeed gets one placeholder; otherwise the sub-columns follow.
CellStep ==
    /\ rd_pc = "cell" /\ rd_col <= Len(TableColumns)
    /\ \E cell \in CellChoices :
         LET sub_columns_count == Len(CurSubColumns) IN
         /\ rd_cell' = cell
         /\ IF ~cell.present
            THEN /\ rd_s' = Append(rd_s, MultiColumn(sub_columns_count, "missing"))
                 /\ rd_col' = rd_col + 1
                 /\ UNCHANGED <<rd_pc, rd_sub>>
            ELSE IF cell.status # "success"
            THEN /\ rd_s' = Append(rd_s, MultiColumn(sub_columns_count, cell.status))
                 /\ rd_col' = rd_col + 1
                 /\ UNCHANGED <<rd_pc, rd_sub>>
            ELSE /\ rd_sub' = 1
                 /\ rd_pc' = "sub"
                 /\ UNCHANGED <<rd_s, rd_col>>
    /\ UNCHANGED <<rd_flag, rd_table, rd_row, rd_lines>>
    /\ UNCHANGED notRenderVars

\* Mutants of the except clause: the flag is not looked at, and every
\* exception (an Exception, so not SystemExit) is taken for an unknown value.
on_evaluate_NoFlag(res, ignore_unknown_values) ==
    IF ~IsRaise(res) THEN "value"
    ELSE IF res.e = "SystemExit" THEN "exit"
    ELSE IF res.e = "UnknownValueException" THEN "exit"
    ELSE "crash"

on_evaluate_CatchAll(res, ignore_unknown_values) ==
    IF ~IsRaise(res) THEN "value"
    ELSE IF res.e = "SystemExit" THEN "exit"
    ELSE IF ignore_unknown_values THEN "placeholder" ELSE "exit"

\* Lines 231-239: what the try statement does with the outcome of evaluate:
\* the value is written, the placeholder is written, sys.exit() is called (by
\* the handler or by the evaluator), or the exception leaves the renderer.
on_evaluate(res, ignore_unknown_values) ==
    IF ~IsRaise(res) THEN "value"
    ELSE IF res.e = "UnknownValueException"
         THEN (IF ignore_unknown_values THEN "placeholder" ELSE "exit")
    ELSE IF res.e = "SystemExit" THEN "exit"
    ELSE "crash"

\* compute_LaTeX_row_column, lines 229-240: one iteration over the sub-columns.
SubStep ==
    /\ rd_pc = "sub" /\ rd_sub <= Len(CurSubColumns)
    /\ LET res == evaluate(rd_cell.stats, CurSubExpr)
           what == on_evaluate(res, rd_flag)
       IN IF what \in {"exit", "crash"}
          THEN /\ rd_pc' = what
               /\ UNCHANGED <<rd_s, rd_sub>>
          ELSE /\ rd_s' = Append(rd_s, IF what = "placeholder" THEN Placeholder
                                                              ELSE ValueTok(res))
               /\ rd_sub' = rd_sub + 1
               /\ UNCHANGED rd_pc
    /\ UNCHANGED <<rd_flag, rd_table, rd_row, rd_col, rd_cell, rd_lines>>
    /\ UNCHANGED notRenderVars

\* compute_LaTeX_row_column, line 241: return s.
EndCell ==
    /\ rd_pc = "sub" /\ rd_sub > Len(CurSubColumns)
    /\ rd_col' = rd_col + 1
    /\ rd_pc' = "cell"
    /\ UNCHANGED <<rd_flag, rd_table, rd_row, rd_sub, rd_cell, rd_s, rd_lines>>
    /\ UNCHANGED notRenderVars

\* compute_LaTeX_row, line 258, and compute_LaTeX_rows, line 275: the row is
\* added to the table body.
EndRow ==
    /\ rd_pc = "cell" /\ rd_col > Len(TableColumns)
    /\ rd_lines' = rd_lines + 1
    /\ rd_row' = rd_row + 1
    /\ rd_pc' = "row"
    /\ UNCHANGED <<rd_flag, rd_table, rd_col, rd_sub, rd_cell, rd_s>>
    /\ UNCHANGED notRenderVars

\* create_LaTeX_table, lines 312-326: the rows are done, the table is returned.
EndTable ==
    /\ rd_pc = "row" /\ rd_row > Len(TableRows)
    /\ rd_pc' = "table"
    /\ UNCHANGED <<rd_flag, rd_table, rd_row, rd_col, rd_sub, rd_cell, rd_s, rd_lines>>
    /\ UNCHANGED notRenderVars

RenderNext == RowStep \/ CellStep \/ SubStep \/ EndCell \/ EndRow \/ EndTable

\* ---- Properties of the renderer.
\* The evaluation the renderer is about to make, and its outcome.
AtSubColumn == rd_pc = "sub" /\ rd_sub <= Len(CurSubColumns)
CurEval == evaluate(rd_cell.stats, CurSubExpr)
Continues == rd_pc' = "sub" /\ rd_sub' = rd_sub + 1 /\ rd_row' = rd_row /\ rd_col' = rd_col
Aborts == rd_pc' \in {"exit", "crash"} /\ rd_s' = rd_s /\ rd_lines' = rd_lines

\* C8: when the evaluation of a sub-column of a successful run's cell meets a
\* value expression (at any depth) naming a statistic the cell lacks, then with
\* ignore-unknown-values the placeholder is written for the sub-column and the
\* rendering goes on, and without it the rendering ends (sys.exit) and, once
\* ended, never produces the table.
C8_UnknownValueByFlag ==
    [][/\ (AtSubColumn /\ CurEval = Raise("UnknownValueException")) =>
            IF rd_flag THEN rd_s' = Append(rd_s, Placeholder) /\ Continues
                       ELSE rd_pc' = "exit" /\ rd_s' = rd_s
       /\ rd_pc = "exit" => rd_pc' = "exit"]_vars

\* The unknown statistic sits two levels down (percent > divide > value), the
\* flag is set, the placeholder is written and the next sub-column is up.
C8_Witness ==
    /\ rd_flag /\ rd_pc = "sub" /\ rd_sub = 2 /\ CurColumn = "A"
    /\ rd_table["A"][1].expr = UnknownDepth2
    /\ "x" \in DOMAIN rd_cell.stats
    /\ rd_s[Len(rd_s)] = Placeholder
    /\ rd_row = 3

\* C9 as stated: every error of the evaluator is the typed failure that the
\* flag decides: with the flag the placeholder is written and the rendering
\* goes on, without it the rendering ends.
C9_EveryErrorByFlag ==
    [][(AtSubColumn /\ IsRaise(CurEval)) =>
          IF rd_flag THEN rd_s' = Append(rd_s, Placeholder) /\ Continues
                     ELSE Aborts]_vars

\* C9 as amended: only the unknown value is a typed failure that the flag
\* decides; every other error of the evaluator (a zero divisor, a missing
\* "by", a failed assertion, a wrong type) ends the rendering whatever the
\* flag, and the placeholder is written for an unknown value only.
C9_OnlyUnknownByFlag ==
    [][/\ (AtSubColumn /\ IsRaise(CurEval) /\ CurEval # Raise("UnknownValueException"))
            => Aborts
       /\ (AtSubColumn /\ rd_s' = Append(rd_s, Placeholder))
            => (rd_flag /\ CurEval = Raise("UnknownValueException"))]_vars

\* The flag is set and the rendering has ended on a division by a literal 0.
C9_Witness ==
    /\ rd_flag /\ rd_pc = "exit"
    /\ CurSubExpr = DivideByZero
    /\ "x" \in DOMAIN rd_cell.stats
    /\ CurEval = Raise("SystemExit")

\* The number of sub-columns of a column that have no "enabled" key or have
\* it with the value "True".
EnabledCount(column) ==
    Cardinality({i \in 1..Len(rd_table[column]) :
                    rd_table[column][i].enabled \in {NoEnabled, "True"}})

\* C13: for a cell without entry in the row's results, or of a run that did
\* not succeed, the step over the cell evaluates nothing (it does not enter
\* the loop over the sub-columns) and writes one placeholder, "missing" or the
\* status, that spans the number of enabled sub-columns of the column.
C13_PlaceholderSpansEnabled ==
    [][(rd_pc = "cell" /\ rd_col <= Len(TableColumns) /\ rd_cell'.status # "success") =>
          /\ rd_s' = Append(rd_s, MultiColumn(EnabledCount(CurColumn),
                                    IF rd_cell'.present THEN rd_cell'.status ELSE "missing"))
          /\ rd_pc' = "cell" /\ rd_col' = rd_col + 1]_vars

\* The second sub-column of column A is switched off, and the cell of a run
\* that timed out got a placeholder that spans the one sub-column left.
C13_Witness ==
    /\ rd_pc = "cell" /\ rd_col = 2
    /\ rd_table["A"][2].enabled = "False"
    /\ rd_cell = Cell(TRUE, "timeout", NoStats)
    /\ rd_s = <<RowName("r1"), MultiColumn(1, "timeout")>>

(***************************************************************************)
(*                      dot2dot/dot2dot.py: apply_changes                  *)
(***************************************************************************)

\* Texts (attribute values, templates, the warning text) are sequences of
\* characters; attribute names are strings with their characters given by Chars.
AttrNames == {"a", "b", "ab"}
Chars(name) ==
    CASE name = "a" -> <<"a">>
      [] name = "b" -> <<"b">>
      [] name = "ab" -> <<"a", "b">>

\* The elements apply_changes goes over (the nodes, or the edges, of the graph).
coll == <<"n1", "n2">>

\* elmt.attr[a] is None while no element of the graph declares the attribute a;
\* once one element has it, every element has it, with "" as default value.
AttrNone == [none |-> TRUE, s |-> <<>>]
Str(s) == [none |-> FALSE, s |-> s]
attr_get(g, e, a) == IF a \in g.declared THEN Str(g.val[e][a]) ELSE AttrNone
attr_set(g, e, a, v) ==
    [declared |-> g.declared \cup {a}, val |-> [g.val EXCEPT ![e][a] = v]]

\* A compiled regular expression without metacharacters: the literal text lit,
\* followed by '$' when it comes from the command line (parse_format, line 97)
\* and left open when it comes from the JSON file (get_infos_RE, line 35).
\* match is re.match: the text must begin with lit and, with '$', end there.
Regex(lit, anchored) == [lit |-> lit, anchored |-> anchored]
match(re, str) ==
    IF re.anchored THEN str = re.lit
    ELSE Len(re.lit) <= Len(str) /\ SubSeq(str, 1, Len(re.lit)) = re.lit

\* `a in unknown_attributes` on two texts: a occurs as a substring.
IsSubstring(t, str) ==
    \E i \in 0..(Len(str) - Len(t)) : SubSeq(str, i + 1, i + Len(t)) = t

\* verify_cond (lines 186-197).
RECURSIVE verify_cond_loop(_, _, _, _, _)
verify_cond_loop(g, e, cond_list, i, res) ==
    IF i > Len(cond_list) THEN res
    ELSE LET attr == cond_list[i][1]
             val == cond_list[i][2]
             cur == attr_get(g, e, attr)
         IN IF attr # "" /\ (cur.none \/ ~match(val, cur.s))
            THEN verify_cond_loop(g, e, cond_list, i + 1, FALSE)
            ELSE verify_cond_loop(g, e, cond_list, i + 1, res)

verify_cond(g, e, cond_list) == verify_cond_loop(g, e, cond_list, 1, TRUE)

\* format_string % tuple(args): each "%s" takes the next argument.
RECURSIVE Format(_, _)
Format(format_string, args) ==
    IF format_string = <<>> THEN <<>>
    ELSE IF Head(format_string) = "%s"
         THEN Head(args) \o Format(Tail(format_string), Tail(args))
         ELSE <<Head(format_string)>> \o Format(Tail(format_string), args)

\* instantiate_format (lines 199-215): returns the text and unknown_attributes.
RECURSIVE instantiate_loop(_, _, _, _, _, _)
instantiate_loop(g, e, attributes, i, args, unknown) ==
    IF i > Len(attributes) THEN [args |-> args, unknown |-> unknown]
    ELSE LET a == attributes[i]
             cur == attr_get(g, e, a)
         IN IF cur.none \/ cur.s = <<>>
            THEN instantiate_loop(g, e, attributes, i + 1, Append(args, <<>>),
                                  IF ~IsSubstring(Chars(a), unknown)
                                  THEN unknown \o Chars(a) ELSE unknown)
            ELSE instantiate_loop(g, e, attributes, i + 1, Append(args, cur.s), unknown)

instantiate_format(g, e, format_string, attributes, unknown) ==
    LET r == instantiate_loop(g, e, attributes, 1, <<>>, unknown)
    IN [string |-> Format(format_string, r.args), unknown_attributes |-> r.unknown]

\* Mutant: the pairs are written from the last to the first.
RECURSIVE change_values_Reversed(_, _, _)
change_values_Reversed(g, e, pairs) ==
    IF pairs = <<>> THEN g
    ELSE attr_set(change_values_Reversed(g, e, Tail(pairs)), e, Head(pairs)[1], Head(pairs)[2])

\* change_values (lines 217-221): the pairs are written in order.
RECURSIVE change_values(_, _, _)
change_values(g, e, pairs) ==
    IF pairs = <<>> THEN g
    ELSE change_values(attr_set(g, e, Head(pairs)[1], Head(pairs)[2]), e, Tail(pairs))

\* The rules explored.  A rule is Change(cond, update, attr_names): cond a list
\* of pairs (attr, regex), update a list of pairs (attr, format string), and
\* attr_names[i] the names referred to by the i-th format string.
Change(cond, update, attr_names) ==
    [cond |-> cond, update |-> update, attr_names |-> attr_names]
NoCondition == <<<<"", Regex(<<>>, FALSE)>>>>            \* line 151
SetAToY == Change(<<<<"a", Regex(<<"x">>, TRUE)>>>>, <<<<"a", <<"y">>>>>>, <<<<>>>>)
CopyAToB == Change(<<<<"a", Regex(<<"x">>, TRUE)>>>>, <<<<"b", <<"%s">>>>>>, <<<<"a">>>>)
Swap == Change(NoCondition, <<<<"a", <<"%s">>>>, <<"b", <<"%s", "x">>>>>>, <<<<"b">>, <<"a">>>>)
UseAb == Change(<<<<"b", Regex(<<>>, FALSE)>>>>, <<<<"a", <<"%s", "%s">>>>>>, <<<<"ab", "a">>>>)
SetAToX == Change(<<<<"a", Regex(<<"y">>, TRUE)>>>>, <<<<"a", <<"x">>>>>>, <<<<>>>>)
\* Two updates of the same attribute in one rule (-n a=x a=y a=%b%y).
SetATwice ==
    Change(<<<<"a", Regex(<<"x">>, TRUE)>>>>,
           <<<<"a", <<"y">>>>, <<"a", <<"%s", "y">>>>>>, <<<<>>, <<"b">>>>)
ChangePool == {SetAToY, CopyAToB, Swap, UseAb, SetAToX, SetATwice}

\* The graphs explored: "a" and "b" declared or not, and for a declared
\* attribute a value per element; "ab" is on no element.
InitGraphs ==
    {g \in [declared : SUBSET {"a", "b"},
            val : [{"n1", "n2"} -> [AttrNames -> {<<>>, <<"x">>, <<"y">>}]]] :
        \A e \in {"n1", "n2"}, a \in AttrNames : a \notin g.declared => g.val[e][a] = <<>>}

DotInit ==
    /\ dot_pc = "elmt"
    /\ changes \in {<<c1, c2>> : c1 \in ChangePool, c2 \in ChangePool}
    /\ G \in InitGraphs
    /\ elmt_i = 1 /\ change_i = 1
    /\ to_change = <<>>
    /\ unknown_attributes = <<>>
    /\ warnings = <<>>
    /\ snapshot = G

\* The variables of dot2dot while another tool is the subject.
DotIdle ==
    /\ dot_pc = "idle"
    /\ changes = <<>>
    /\ G = [declared |-> {}, val |-> [e \in {"n1", "n2"} |-> [a \in AttrNames |-> <<>>]]]
    /\ elmt_i = 1 /\ change_i = 1
    /\ to_change = <<>>
    /\ unknown_attributes = <<>>
    /\ warnings = <<>>
    /\ snapshot = G

CurElmt == coll[elmt_i]

\* apply_changes, lines 228-230: the pass over the next element begins.
StartElmt ==
    /\ dot_pc = "elmt" /\ elmt_i <= Len(coll)
    /\ to_change' = <<>>
    /\ unknown_attributes' = <<>>
    /\ change_i' = 1
    /\ snapshot' = G
    /\ dot_pc' = "rule"
    /\ UNCHANGED <<changes, G, elmt_i, warnings>>
    /\ UNCHANGED notDotVars

\* apply_changes, lines 236-238: the updates of one rule, each instantiated
\* and appended to to_change.
RECURSIVE update_loop(_, _, _, _, _, _)
update_loop(g, e, change, i, pairs, unknown) ==
    IF i > Len(change.update) THEN [to_change |-> pairs, unknown_attributes |-> unknown]
    ELSE LET r == instantiate_format(g, e, change.update[i][2], change.attr_names[i], unknown)
         IN update_loop(g, e, change, i + 1,
                        Append(pairs, <<change.update[i][1], r.string>>),
                        r.unknown_attributes)

\* Mutant: the pairs of a rule are written as soon as the rule is done.
graph_after_rule_Eager(g, e, pairs) == change_values(g, e, pairs)

\* apply_changes, lines 231-238: the loop body only appends to to_change; the
\* element is not written to.
graph_after_rule(g, e, pairs) == g

\* apply_changes, lines 231-238: one iteration of the loop over changes.
RuleStep ==
    /\ dot_pc = "rule" /\ change_i <= Len(changes)
    /\ LET change == changes[change_i]
       IN IF verify_cond(G, CurElmt, change.cond)
          THEN LET r == update_loop(G, CurElmt, change, 1, to_change, unknown_attributes)
               IN /\ to_change' = r.to_change
                  /\ unknown_attributes' = r.unknown_attributes
                  /\ G' = graph_after_rule(G, CurElmt,
                              SubSeq(r.to_change, Len(to_change) + 1, Len(r.to_change)))
          ELSE UNCHANGED <<to_change, unknown_attributes, G>>
    /\ change_i' = change_i + 1
    /\ UNCHANGED <<dot_pc, changes, elmt_i, warnings, snapshot>>
    /\ UNCHANGED notDotVars

\* apply_changes, lines 240-245: the warning, then change_values.
WriteElmt ==
    /\ dot_pc = "rule" /\ change_i > Len(changes)
    /\ warnings' = IF Len(unknown_attributes) > 0
                   THEN Append(warnings, <<CurElmt, unknown_attributes>>)
                   ELSE warnings
    /\ G' = change_values(G, CurElmt, to_change)
    /\ elmt_i' = elmt_i + 1
    /\ dot_pc' = "elmt"
    /\ UNCHANGED <<changes, change_i, to_change, unknown_attributes, snapshot>>
    /\ UNCHANGED notDotVars

\* apply_changes returns.
EndColl ==
    /\ dot_pc = "elmt" /\ elmt_i > Len(coll)
    /\ dot_pc' = "done"
    /\ UNCHANGED <<changes, G, elmt_i, change_i, to_change, unknown_attributes, warnings, snapshot>>
    /\ UNCHANGED notDotVars

DotNext == StartElmt \/ RuleStep \/ WriteElmt \/ EndColl

\* ---- Properties of apply_changes.
\* The pairs that the first k rules yield for element e when every condition
\* and every template is evaluated on the graph s.
RECURSIVE PairsFrom(_, _, _)
PairsFrom(s, e, k) ==
    IF k = 0 THEN <<>>
    ELSE PairsFrom(s, e, k - 1) \o
         (IF verify_cond(s, e, changes[k].cond)
          THEN update_loop(s, e, changes[k], 1, <<>>, <<>>).to_change
          ELSE <<>>)

\* C10: during the pass over an element the graph stays as it was when the
\* pass began, and the pairs collected so far are those that the rules seen
\* so far yield on that earlier graph; the step that ends the pass writes
\* exactly the pairs that all the rules yield on the earlier graph.
C10_ComputedFromSnapshot ==
    [][/\ dot_pc' = "rule" =>
            /\ G' = snapshot'
            /\ to_change' = PairsFrom(snapshot', coll[elmt_i'], change_i' - 1)
       /\ (dot_pc = "rule" /\ dot_pc' = "elmt") =>
            G' = change_values(snapshot, CurElmt, PairsFrom(snapshot, CurElmt, Len(changes)))]_vars

\* The first rule has set "a" to "y"; the second rule, whose condition wants
\* "a" to be "x" and whose template copies "a", has applied all the same and
\* copied "x"; both values are now written.
C10_Witness ==
    /\ changes = <<SetAToY, CopyAToB>>
    /\ dot_pc = "elmt" /\ elmt_i = 2
    /\ to_change = <<<<"a", <<"y">>>>, <<"b", <<"x">>>>>>
    /\ attr_get(snapshot, "n1", "a") = Str(<<"x">>)
    /\ attr_get(G, "n1", "a") = Str(<<"y">>)
    /\ attr_get(G, "n1", "b") = Str(<<"x">>)

\* The element lacks the attribute a, as instantiate_format tells it
\* (line 209): elmt.attr[a] is None or the empty text.
HasNoAttr(g, e, a) == attr_get(g, e, a).none \/ attr_get(g, e, a).s = <<>>

\* Every condition of the rule names an attribute that the element has and
\* whose value the regex matches (a rule without condition has none to meet).
AllConditionsMatch(g, e, cond_list) ==
    \A i \in 1..Len(cond_list) :
        cond_list[i][1] # "" =>
            /\ ~HasNoAttr(g, e, cond_list[i][1])
            /\ match(cond_list[i][2], attr_get(g, e, cond_list[i][1]).s)

\* C11: the step over a rule appends the rule's updates to the pairs to write
\* if and only if every condition of the rule matches the element's value of
\* the named attribute; a rule without condition always applies; a rule with a
\* condition on an attribute the element lacks adds nothing.
C11_AppliesIffConditionsMatch ==
    [][(dot_pc = "rule" /\ change_i <= Len(changes) /\ change_i' = change_i + 1) =>
          /\ AllConditionsMatch(G, CurElmt, changes[change_i].cond)
                <=> Len(to_change') = Len(to_change) + Len(changes[change_i].update)
          /\ ~AllConditionsMatch(G, CurElmt, changes[change_i].cond)
                => to_change' = to_change /\ G' = G]_vars

\* The names referred to by the templates of those of the first k rules that
\* apply to element e on the graph s, in rule order, then update order.
RECURSIVE JoinAll(_)
JoinAll(seqs) == IF seqs = <<>> THEN <<>> ELSE Head(seqs) \o JoinAll(Tail(seqs))

RECURSIVE ReferencedNames(_, _, _)
ReferencedNames(s, e, k) ==
    IF k = 0 THEN <<>>
    ELSE ReferencedNames(s, e, k - 1) \o
         (IF verify_cond(s, e, changes[k].cond) THEN JoinAll(changes[k].attr_names) ELSE <<>>)

\* The distinct names among `names` that element e lacks, each once, in the
\* order of their first reference.
RECURSIVE DistinctMissing(_, _, _, _)
DistinctMissing(s, e, names, seen) ==
    IF names = <<>> THEN seen
    ELSE DistinctMissing(s, e, Tail(names),
            IF HasNoAttr(s, e, Head(names)) /\ \A i \in 1..Len(seen) : seen[i] # Head(names)
            THEN Append(seen, Head(names)) ELSE seen)

RECURSIVE NamesText(_)
NamesText(names) == IF names = <<>> THEN <<>> ELSE Chars(Head(names)) \o NamesText(Tail(names))

\* C12: when the pass over an element ends, the warning written for the
\* element names every distinct attribute that a template of a matching rule
\* refers to and the element lacks, each exactly once, and no warning is
\* written when there is none.
C12_OneWarningPerMissingName ==
    [][(dot_pc = "rule" /\ dot_pc' = "elmt") =>
          LET missing == DistinctMissing(snapshot, CurElmt,
                             ReferencedNames(snapshot, CurElmt, Len(changes)), <<>>)
          IN IF missing = <<>> THEN warnings' = warnings
             ELSE warnings' = Append(warnings, <<CurElmt, NamesText(missing)>>)]_vars

\* The places in the pairs to write where the attribute a is set.
PairsSetting(a) == {i \in 1..Len(to_change) : to_change[i][1] = a}
LastSetting(a) == CHOOSE i \in PairsSetting(a) : \A j \in PairsSetting(a) : j <= i

\* C20: the step that ends the pass over an element gives every attribute
\* that pairs of the pass set the value of the last such pair (the pairs being
\* in rule order, then update order) and leaves every other attribute of the
\* element as it was; with no pair to write the graph is left unchanged.
C20_LastWriterWins ==
    [][(dot_pc = "rule" /\ dot_pc' = "elmt") =>
          /\ to_change = PairsFrom(snapshot, CurElmt, Len(changes))
          /\ \A a \in AttrNames :
               IF PairsSetting(a) = {}
               THEN attr_get(G', CurElmt, a) = attr_get(snapshot, CurElmt, a)
               ELSE attr_get(G', CurElmt, a) = Str(to_change[LastSetting(a)][2])
          /\ to_change = <<>> => G' = snapshot]_vars

\* Two rules set "a" of n1 to different values, and "a" has the later one
\* while "b", which no pair sets, is as before the pass.
C20_Witness ==
    /\ dot_pc = "elmt" /\ elmt_i = 2
    /\ Len(to_change) = 2 /\ changes[1] # changes[2]
    /\ to_change[1][1] = "a" /\ to_change[2][1] = "a"
    /\ to_change[1][2] # to_change[2][2]
    /\ attr_get(G, "n1", "a") = Str(to_change[2][2])
    /\ attr_get(G, "n1", "b") = attr_get(snapshot, "n1", "b")

(***************************************************************************)
(*              dot2dot/dot2dot.py: the rules of the graph object          *)
(***************************************************************************)

\* The place of the first '%' of a text, 0 if it has none.
FirstPercent(str) ==
    IF \E i \in 1..Len(str) : str[i] = "%"
    THEN CHOOSE i \in 1..Len(str) : str[i] = "%" /\ \A j \in 1..(i - 1) : str[j] # "%"
    ELSE 0

\* parse_references (lines 101-108): every %...% is replaced by "%s" (a
\* '%' without a partner stays) and the texts between the '%' are the
\* references.
RECURSIVE parse_references(_)
parse_references(str) ==
    LET open == FirstPercent(str)
        close == IF open = 0 THEN 0 ELSE FirstPercent(SubSeq(str, open + 1, Len(str)))
    IN IF open = 0 \/ close = 0 THEN [format_string |-> str, refs |-> <<>>]
       ELSE LET rest == parse_references(SubSeq(str, open + close + 1, Len(str)))
            IN [format_string |-> SubSeq(str, 1, open - 1) \o <<"%s">> \o rest.format_string,
                refs |-> <<SubSeq(str, open + 1, open + close - 1)>> \o rest.refs]

\* get_infos (lines 12-26): the pairs (key, format string) and the references.
RECURSIVE get_infos(_)
get_infos(dct) ==
    IF dct = <<>> THEN [res |-> <<>>, attributes |-> <<>>]
    ELSE LET p == parse_references(Head(dct)[2])
             r == get_infos(Tail(dct))
         IN [res |-> <<<<Head(dct)[1], p.format_string>>>> \o r.res,
             attributes |-> <<p.refs>> \o r.attributes]

\* The value templates of the graph rules explored, and the "updates"
\* sections: one or two keys among "a" and "b".
Templates ==
    {<<"y">>, <<"%", "a", "%">>, <<"%", "a", "%", "x">>, <<"%", "b", "%", "%", "a", "%">>,
     <<"x", "%">>}
GraphUpdates ==
    {<<<<k, t>>>> : k \in {"a", "b"}, t \in Templates}
    \cup {<<<<"a", t1>>, <<"b", t2>>>> : t1 \in Templates, t2 \in Templates}
    \cup {<<<<"b", t1>>, <<"a", t2>>>> : t1 \in Templates, t2 \in Templates}

GraphInit ==
    /\ gr_pc = "extract"
    /\ graph_updates \in GraphUpdates
    /\ graph_changes = <<>>
    /\ gr_i = 1
    /\ graph_attr \in {f \in [AttrNames -> {AttrNone, Str(<<>>), Str(<<"x">>)}] : f["ab"] = AttrNone}

\* The variables of the graph rule while another tool is the subject.
GraphIdle ==
    /\ gr_pc = "idle"
    /\ graph_updates = <<>>
    /\ graph_changes = <<>>
    /\ gr_i = 1
    /\ graph_attr = [a \in AttrNames |-> AttrNone]

\* dct_to_changes, lines 182-183, with dct_extract_infos (lines 161-162):
\* the pairs that get_infos returns are added to the changes of the graph;
\* the references are dropped.
ExtractGraphChanges ==
    /\ gr_pc = "extract"
    /\ graph_changes' = graph_changes \o get_infos(graph_updates).res
    /\ gr_pc' = "apply"
    /\ UNCHANGED <<graph_updates, gr_i, graph_attr>>
    /\ UNCHANGED notGraphVars

\* graph_apply_changes, lines 250-251: one iteration.
GraphApplyStep ==
    /\ gr_pc = "apply" /\ gr_i <= Len(graph_changes)
    /\ graph_attr' = [graph_attr EXCEPT ![graph_changes[gr_i][1]] = Str(graph_changes[gr_i][2])]
    /\ gr_i' = gr_i + 1
    /\ UNCHANGED <<gr_pc, graph_updates, graph_changes>>
    /\ UNCHANGED notGraphVars

GraphApplyEnd ==
    /\ gr_pc = "apply" /\ gr_i > Len(graph_changes)
    /\ gr_pc' = "done"
    /\ UNCHANGED <<graph_updates, graph_changes, gr_i, graph_attr>>
    /\ UNCHANGED notGraphVars

GraphNext == ExtractGraphChanges \/ GraphApplyStep \/ GraphApplyEnd

\* ---- Properties of the graph rules.
\* The text of a template once every %name% is replaced by the value that the
\* attributes attrs have for name (the empty text for an attribute not there).
Instantiated(attrs, template) ==
    LET p == parse_references(template)
    IN Format(p.format_string,
              [i \in 1..Len(p.refs) |->
                  IF \E a \in AttrNames : Chars(a) = p.refs[i] /\ ~attrs[a].none
                  THEN attrs[CHOOSE a \in AttrNames : Chars(a) = p.refs[i]].s
                  ELSE <<>>])

\* C18: when an update of a graph rule is applied, the graph attribute gets
\* the template with its %name% placeholders replaced by the graph's current
\* values of the named attributes, not the template or the format string.
C18_GraphTemplateInstantiated ==
    [][(gr_pc = "apply" /\ gr_i <= Len(graph_changes)) =>
          graph_attr'[graph_updates[gr_i][1]] =
              Str(Instantiated(graph_attr, graph_updates[gr_i][2]))]_vars

(***************************************************************************)
(*                           Specifications                                *)
(***************************************************************************)

\* The benchmark runner.
Init == RunInit /\ MergeIdle /\ EvalIdle /\ RenderIdle /\ DotIdle /\ GraphIdle

Next == RunNext

Spec == Init /\ [][Next]_vars

\* make_table.py's merge of result files.
MergeSpecInit == MergeInit /\ RunIdle /\ EvalIdle /\ RenderIdle /\ DotIdle /\ GraphIdle

SpecMerge == MergeSpecInit /\ [][MergeNext]_vars

\* make_table.py's expression evaluator, one call.
EvalSpecInit == EvalInit /\ RunIdle /\ MergeIdle /\ RenderIdle /\ DotIdle /\ GraphIdle

SpecEval == EvalSpecInit /\ [][EvalNext]_vars

\* make_table.py's renderer of the table rows.
RenderSpecInit == RenderInit /\ RunIdle /\ MergeIdle /\ EvalIdle /\ DotIdle /\ GraphIdle

SpecRender == RenderSpecInit /\ [][RenderNext]_vars

\* dot2dot.py's apply_changes over the nodes of a graph.
DotSpecInit == DotInit /\ RunIdle /\ MergeIdle /\ EvalIdle /\ RenderIdle /\ GraphIdle

SpecDot == DotSpecInit /\ [][DotNext]_vars

\* dot2dot.py's handling of a rule of the graph object.
GraphSpecInit == GraphInit /\ RunIdle /\ MergeIdle /\ EvalIdle /\ RenderIdle /\ DotIdle

SpecGraph == GraphSpecInit /\ [][GraphNext]_vars

=============================================================================
